---- MODULE Spec2Model ----
(***************************************************************************)
(* RentEase: the two-collection user store (landlords, tenants), the       *)
(* identity endpoints (register, login, password reset), the landlord and  *)
(* tenant APIs, the role-gated dashboards and the payment broadcast.       *)
(*                                                                         *)
(* Representation.                                                         *)
(*  - A Python string-or-None value is a TLA+ string; None is the constant  *)
(*    None below, the empty string is "".                                  *)
(*  - A password value (plaintext or bcrypt hash string) is a sequence of   *)
(*    strings: <<p>> is the plaintext p, and bcrypt.hashpw(v, salt) is v    *)
(*    with the salt appended.  So <<p, s>> is the hash of p under salt s,   *)
(*    and <<p, s, t>> is the hash (under t) of the hash STRING <<p, s>>.    *)
(*  - A collection is the sequence of its documents in insertion order;    *)
(*    find_one / update_one act on the first document that matches.        *)
(*  - reset_token is a number; 0 stands for "field not set".  The expiry    *)
(*    stored beside it is never read by the program and is not modelled.   *)
(***************************************************************************)
EXTENDS Integers, Sequences, FiniteSets, Bags, TLC

VARIABLES
    landlords,  \* db.landlords
    tenants,    \* db.tenants
    session,    \* the Flask session of the browser: email and role
    resp,       \* the HTTP response of the last request
    nextToken,  \* the next value secrets.token_urlsafe hands out
    issued,     \* history: every <<email, token>> a reset request returned
    events,     \* the socketio.emit calls made so far
    nops,       \* number of requests so far that wrote to the store or emitted
    pending     \* the bag of save() calls in flight, when requests are served
                \* concurrently

vars == <<landlords, tenants, session, resp, nextToken, issued, events, nops,
          pending>>

----------------------------------------------------------------------------
\* Bound of the model.

\* Requests that write to the store or emit an event are counted; at most
\* MaxOps of them happen in a run.  Requests that fail, only read, or only
\* set the session are not limited.
MaxOps == 3

----------------------------------------------------------------------------
\* Input domains.

None == "<None>"

Emails == {"ann@x.com", "bob@x.com"}

Passwords == {"short", "password123", "password456"}

\* bcrypt.gensalt() draws the salt at random; one salt value is explored
Salts == {"s1"}

Roles == {"landlord", "tenant"}

LandlordEmailInputs == Emails \cup {None}

\* Python truthiness of a str-or-None value
Truthy(s) == s # None /\ s # ""

\* len() of a password value: a plaintext has its own length, a bcrypt hash
\* string is 60 characters long
PyLen(v) == IF Len(v) = 1 THEN Len(v[1]) ELSE 60

MIN_PASSWORD_LENGTH == 8

----------------------------------------------------------------------------
\* bcrypt

\* bcrypt.hashpw(pw, salt)
HashPw(pw, salt) == Append(pw, salt)

\* a checkpw that accepts any candidate against any hash
CheckPw_AcceptAll(candidate, hashed) == Len(hashed) > 1

\* bcrypt.checkpw(candidate, hashed): re-hash the candidate under the salt
\* carried by the hash and compare
CheckPw(candidate, hashed) ==
    /\ Len(hashed) > 1
    /\ HashPw(candidate, hashed[Len(hashed)]) = hashed

----------------------------------------------------------------------------
\* pymongo collection primitives

\* index of the first document with this email, 0 when there is none
FindOne(coll, email) ==
    LET hits == {i \in 1..Len(coll) : coll[i].email = email}
    IN  IF hits = {} THEN 0
        ELSE CHOOSE i \in hits : \A j \in hits : i <= j

InsertOne(coll, doc) == Append(coll, doc)

\* update_one({"email": email}, ...): the first match is replaced by its
\* changed document; changed[i] is the update applied to coll[i]
UpdateOne(coll, email, changed) ==
    [i \in 1..Len(coll) |->
        IF i = FindOne(coll, email) THEN changed[i] ELSE coll[i]]

----------------------------------------------------------------------------
\* User

\* User.__init__
User(email, password, role, landlord_email, first_name, last_name, phone, profile_picture, house_type) ==
    [email |-> email, password |-> password, role |-> role,
     landlord_email |-> landlord_email, first_name |-> first_name,
     last_name |-> last_name, phone |-> phone,
     profile_picture |-> profile_picture, house_type |-> house_type]

\* cls(...) from a stored document; a document has no landlord_email field,
\* so user_data.get("landlord_email") is None
UserOfDoc(d) ==
    User(d.email, d.password, d.role, None, d.first_name, d.last_name,
         d.phone, d.profile_picture, d.house_type)

\* the not-found sentinel of find_by_email
NoUser == User(None, <<>>, None, None, None, None, None, None, None)

\* a role-unaware sweep that looks into the tenants collection first
find_by_email_TenantsFirst(L, T, email, role) ==
    IF role = "landlord"
    THEN IF FindOne(L, email) # 0 THEN UserOfDoc(L[FindOne(L, email)])
         ELSE NoUser
    ELSE IF role = "tenant"
    THEN IF FindOne(T, email) # 0 THEN UserOfDoc(T[FindOne(T, email)])
         ELSE NoUser
    ELSE IF FindOne(T, email) # 0 THEN UserOfDoc(T[FindOne(T, email)])
    ELSE IF FindOne(L, email) # 0 THEN UserOfDoc(L[FindOne(L, email)])
    ELSE NoUser

\* User.find_by_email(email, role); role = None is the role-unaware sweep
find_by_email(L, T, email, role) ==
    IF role = "landlord"
    THEN IF FindOne(L, email) # 0 THEN UserOfDoc(L[FindOne(L, email)])
         ELSE NoUser
    ELSE IF role = "tenant"
    THEN IF FindOne(T, email) # 0 THEN UserOfDoc(T[FindOne(T, email)])
         ELSE NoUser
    ELSE IF FindOne(L, email) # 0 THEN UserOfDoc(L[FindOne(L, email)])
    ELSE IF FindOne(T, email) # 0 THEN UserOfDoc(T[FindOne(T, email)])
    ELSE NoUser

\* User.check_password
check_password(u, candidate) == CheckPw(candidate, u.password)

\* a save() that forgets the password policy
SaveRaises_NoPolicy(u) == FALSE

\* save() raises ValueError before touching the store
SaveRaises(u) == PyLen(u.password) < MIN_PASSWORD_LENGTH

\* the $set of save() on an existing document
SetOnSave(d, u, hashed) ==
    [d EXCEPT !.password = hashed, !.first_name = u.first_name,
              !.last_name = u.last_name, !.phone = u.phone,
              !.profile_picture = u.profile_picture,
              !.house_type = u.house_type]

\* an insert that tags every new document as a tenant
NewDoc_TenantTag(u, hashed) ==
    [email |-> u.email, password |-> hashed, role |-> "tenant",
     first_name |-> u.first_name, last_name |-> u.last_name,
     phone |-> u.phone, profile_picture |-> u.profile_picture,
     house_type |-> u.house_type, reset_token |-> 0, tenants |-> <<>>]

\* the document save() inserts
NewDoc(u, hashed) ==
    [email |-> u.email, password |-> hashed, role |-> u.role,
     first_name |-> u.first_name, last_name |-> u.last_name,
     phone |-> u.phone, profile_picture |-> u.profile_picture,
     house_type |-> u.house_type, reset_token |-> 0, tenants |-> <<>>]

\* save(): find_one, then update_one or insert_one, on the role's collection
SaveInto(coll, u, salt) ==
    LET hashed == HashPw(u.password, salt)
        set == [i \in 1..Len(coll) |-> SetOnSave(coll[i], u, hashed)]
    IN  IF FindOne(coll, u.email) # 0
        THEN UpdateOne(coll, u.email, set)
        ELSE InsertOne(coll, NewDoc(u, hashed))

\* a $push that is applied to every landlord document
PushMembership_All(L, u) ==
    IF u.role = "tenant" /\ Truthy(u.landlord_email)
    THEN [i \in 1..Len(L) |->
            [L[i] EXCEPT !.tenants =
                Append(@, [name |-> u.email, status |-> "overdue"])]]
    ELSE L

\* save(): the $push on the landlord's document
PushMembership(L, u) ==
    LET push == [i \in 1..Len(L) |->
                    [L[i] EXCEPT !.tenants =
                        Append(@, [name |-> u.email, status |-> "overdue"])]]
    IN  IF u.role = "tenant" /\ Truthy(u.landlord_email)
        THEN UpdateOne(L, u.landlord_email, push)
        ELSE L

\* the landlords collection after a save() that does not raise
SaveLandlords(L, u, salt) ==
    PushMembership(IF u.role = "landlord" THEN SaveInto(L, u, salt) ELSE L, u)

\* a save() that never writes the tenant's own record
SaveTenants_NoWrite(T, u, salt) == T

\* the tenants collection after a save() that does not raise
SaveTenants(T, u, salt) ==
    IF u.role = "landlord" THEN T ELSE SaveInto(T, u, salt)

\* User.get_tenants, for a user whose role is landlord
get_tenants(L, u) == L[FindOne(L, u.email)].tenants

----------------------------------------------------------------------------
\* Responses.  Every handler leaves its HTTP response in resp.

Response(op, status, message, role, token, body) ==
    [op |-> op, status |-> status, message |-> message, role |-> role,
     token |-> token, body |-> body]

NoSession == [email |-> None, role |-> None]

\* a request that writes or emits consumes one unit of the budget
Budget == nops < MaxOps /\ nops' = nops + 1

----------------------------------------------------------------------------
Init ==
    /\ landlords = <<>>
    /\ tenants = <<>>
    /\ session = NoSession
    /\ resp = Response("none", 0, "", None, 0, <<>>)
    /\ nextToken = 1
    /\ issued = {}
    /\ events = <<>>
    /\ nops = 0
    /\ pending = EmptyBag

\* POST /register
Register(email, password, confirm_password, role, landlord_email, salt) ==
    LET user == User(email, <<password>>, role, landlord_email,
                     None, None, None, None, None)
    IN  /\ IF password # confirm_password
           THEN /\ resp' = Response("register", 400, "Passwords do not match",
                                    None, 0, <<>>)
                /\ UNCHANGED <<landlords, tenants, nops>>
           ELSE IF SaveRaises(user)
           THEN /\ resp' = Response("register", 400,
                                    "Password must be at least 8 characters.",
                                    None, 0, <<>>)
                /\ UNCHANGED <<landlords, tenants, nops>>
           ELSE /\ Budget
                /\ landlords' = SaveLandlords(landlords, user, salt)
                /\ tenants' = SaveTenants(tenants, user, salt)
                /\ resp' = Response("register", 201, "Registration successful",
                                    role, 0, <<>>)
        /\ UNCHANGED <<session, nextToken, issued, events, pending>>

\* POST /login
Login(email, password) ==
    LET user == find_by_email(landlords, tenants, email, None)
    IN  /\ IF user # NoUser /\ check_password(user, <<password>>)
           THEN /\ session' = [email |-> user.email, role |-> user.role]
                /\ resp' = Response("login", 200, "Login successful",
                                    user.role, 0, <<>>)
           ELSE /\ resp' = Response("login", 401, "Invalid credentials",
                                    None, 0, <<>>)
                /\ UNCHANGED session
        /\ UNCHANGED <<landlords, tenants, nextToken, issued, events, nops, pending>>

\* a token generator that returns the same token every time
token_urlsafe_Constant == IF nextToken >= 1 THEN 1 ELSE nextToken

\* secrets.token_urlsafe(32): a 256-bit random token, modelled as a value
\* that was never handed out before
token_urlsafe == nextToken

\* User.generate_reset_token: the user's collection after the token is
\* persisted
generate_reset_token(coll, u, token) ==
    LET set == [i \in 1..Len(coll) |-> [coll[i] EXCEPT !.reset_token = token]]
    IN  UpdateOne(coll, u.email, set)

\* POST /request_reset
RequestReset(email) ==
    LET user == find_by_email(landlords, tenants, email, None)
    IN  /\ IF user = NoUser
           THEN /\ resp' = Response("request_reset", 404, "User not found",
                                    None, 0, <<>>)
                /\ UNCHANGED <<landlords, tenants, nextToken, issued, nops>>
           ELSE /\ Budget
                /\ landlords' = IF user.role = "landlord"
                                THEN generate_reset_token(landlords, user, token_urlsafe)
                                ELSE landlords
                /\ tenants' = IF user.role = "landlord"
                              THEN tenants
                              ELSE generate_reset_token(tenants, user, token_urlsafe)
                /\ nextToken' = nextToken + 1
                /\ issued' = issued \cup {<<email, token_urlsafe>>}
                /\ resp' = Response("request_reset", 200, "reset token generated",
                                    None, token_urlsafe, <<>>)
        /\ UNCHANGED <<session, events, pending>>

\* a reset_password that forgets the password policy
ResetRaises_NoPolicy(new_password) == FALSE

\* User.reset_password raises ValueError before touching the store
ResetRaises(new_password) == PyLen(new_password) < MIN_PASSWORD_LENGTH

\* User.reset_password: the user's collection after the $set of the new hash
reset_password(coll, u, new_password, salt) ==
    LET set == [i \in 1..Len(coll) |->
                   [coll[i] EXCEPT !.password = HashPw(new_password, salt)]]
    IN  UpdateOne(coll, u.email, set)

\* POST /reset_password
ResetPassword(email, new_password, confirm_password, salt) ==
    LET user == find_by_email(landlords, tenants, email, None)
    IN  /\ IF new_password # confirm_password
           THEN /\ resp' = Response("reset_password", 400,
                                    "Passwords do not match", None, 0, <<>>)
                /\ UNCHANGED <<landlords, tenants, nops>>
           ELSE IF user = NoUser
           THEN /\ resp' = Response("reset_password", 404, "User not found",
                                    None, 0, <<>>)
                /\ UNCHANGED <<landlords, tenants, nops>>
           ELSE IF ResetRaises(<<new_password>>)
           THEN /\ resp' = Response("reset_password", 400,
                                    "New password must be at least 8 characters.",
                                    None, 0, <<>>)
                /\ UNCHANGED <<landlords, tenants, nops>>
           ELSE /\ Budget
                /\ landlords' = IF user.role = "landlord"
                                THEN reset_password(landlords, user,
                                                    <<new_password>>, salt)
                                ELSE landlords
                /\ tenants' = IF user.role = "landlord"
                              THEN tenants
                              ELSE reset_password(tenants, user,
                                                  <<new_password>>, salt)
                /\ resp' = Response("reset_password", 200,
                                    "Password reset successful", None, 0, <<>>)
        /\ UNCHANGED <<session, nextToken, issued, events, pending>>

----------------------------------------------------------------------------
\* The landlord and tenant APIs.

\* an uploaded file: the directory part, stem and extension of its filename
NoUpload == [dir |-> "", stem |-> "", ext |-> ""]

\* a settings request: the text fields of request.form (None for a field that
\* was not submitted) and the file under 'profile_picture' in request.files
SettingsRequest(first_name, last_name, phone, house_type, current_password, new_password, upload) ==
    [first_name |-> first_name, last_name |-> last_name, phone |-> phone,
     house_type |-> house_type, current_password |-> current_password,
     new_password |-> new_password, upload |-> upload]

SettingsInputs ==
    {SettingsRequest(None, None, None, None, None, None, NoUpload),
     SettingsRequest("Ann", "Lee", "555", "2BR", "", "",
                     [dir |-> "../", stem |-> "me", ext |-> "PNG"]),
     SettingsRequest("Ann", None, None, "2BR", "", "password456",
                     [dir |-> "", stem |-> "cv", ext |-> "pdf"]),
     SettingsRequest(None, None, None, None, "password123", None, NoUpload),
     SettingsRequest(None, None, None, None, "password123", "password456",
                     NoUpload),
     SettingsRequest(None, None, None, None, "password123", "short", NoUpload),
     SettingsRequest(None, None, None, None, "password456", "password123",
                     NoUpload)}

ALLOWED_EXTENSIONS == {"png", "jpg", "jpeg", "gif"}

\* str.lower() on the extensions in use
Lower(ext) == IF ext = "PNG" THEN "png" ELSE ext

\* allowed_file(filename)
allowed_file(f) == f.ext # "" /\ Lower(f.ext) \in ALLOWED_EXTENSIONS

\* werkzeug secure_filename: the directory part is dropped
secure_filename(f) == f.stem \o "." \o f.ext

\* the profile_picture a settings handler leaves on the user object
PictureAfterUpload(u, f) ==
    IF f # NoUpload /\ allowed_file(f) THEN secure_filename(f)
    ELSE u.profile_picture

\* "if current_password and new_password"
WantsPasswordChange(form) ==
    Truthy(form.current_password) /\ Truthy(form.new_password)

\* the user object update_landlord_settings hands to save()
LandlordToSave(u, form) ==
    [u EXCEPT !.first_name = form.first_name,
              !.last_name = form.last_name,
              !.phone = form.phone,
              !.password = IF WantsPasswordChange(form)
                            THEN <<form.new_password>> ELSE @,
              !.profile_picture = PictureAfterUpload(u, form.upload)]

\* the user object update_tenant_settings hands to save()
TenantToSave(u, form) ==
    [u EXCEPT !.first_name = form.first_name,
              !.last_name = form.last_name,
              !.phone = form.phone,
              !.house_type = form.house_type,
              !.password = IF WantsPasswordChange(form)
                            THEN <<form.new_password>> ELSE @,
              !.profile_picture = PictureAfterUpload(u, form.upload)]

\* a join loop that inserts each element in front of the list
TenantList_Reversed(T, entries) ==
    LET tenant_list[k \in 0..Len(entries)] ==
            IF k = 0 THEN <<>>
            ELSE LET tenant == entries[k]
                     tenant_user == find_by_email(<<>>, T, tenant.name, "tenant")
                 IN  IF tenant_user # NoUser
                     THEN <<[name |-> tenant_user.email,
                             status |-> tenant.status,
                             house_type |-> tenant_user.house_type]>>
                          \o tenant_list[k - 1]
                     ELSE tenant_list[k - 1]
    IN  tenant_list[Len(entries)]

\* the join loop of GET /api/landlord/tenants: tenant_list after the loop
\* has gone over the first k membership entries
TenantList(T, entries) ==
    LET tenant_list[k \in 0..Len(entries)] ==
            IF k = 0 THEN <<>>
            ELSE LET tenant == entries[k]
                     tenant_user == find_by_email(<<>>, T, tenant.name, "tenant")
                 IN  IF tenant_user # NoUser
                     THEN Append(tenant_list[k - 1],
                                 [name |-> tenant_user.email,
                                  status |-> tenant.status,
                                  house_type |-> tenant_user.house_type])
                     ELSE tenant_list[k - 1]
    IN  tenant_list[Len(entries)]

\* GET /api/landlord/tenants
GetTenants ==
    LET landlord == find_by_email(landlords, tenants, session.email, None)
    IN  /\ resp' =
              IF ~Truthy(session.email)
              THEN Response("get_tenants", 401, "Unauthorized", None, 0, <<>>)
              ELSE IF landlord = NoUser \/ landlord.role # "landlord"
              THEN Response("get_tenants", 404, "Landlord not found",
                            None, 0, <<>>)
              ELSE Response("get_tenants", 200, "", None, 0,
                            TenantList(tenants, get_tenants(landlords, landlord)))
        /\ UNCHANGED <<landlords, tenants, session, nextToken, issued, events,
                       nops, pending>>

\* GET /api/landlord/info
GetLandlordInfo ==
    LET landlord == find_by_email(landlords, tenants, session.email, None)
    IN  /\ resp' =
              IF ~Truthy(session.email)
              THEN Response("get_landlord_info", 401, "Unauthorized",
                            None, 0, <<>>)
              ELSE IF landlord = NoUser \/ landlord.role # "landlord"
              THEN Response("get_landlord_info", 404, "Landlord not found",
                            None, 0, <<>>)
              ELSE Response("get_landlord_info", 200, "", None, 0,
                            <<[first_name |-> landlord.first_name,
                               last_name |-> landlord.last_name,
                               email |-> landlord.email,
                               phone |-> landlord.phone]>>)
        /\ UNCHANGED <<landlords, tenants, session, nextToken, issued, events,
                       nops, pending>>

\* POST /api/landlord/settings
UpdateLandlordSettings(form, salt) ==
    LET landlord == find_by_email(landlords, tenants, session.email, None)
        toSave == LandlordToSave(landlord, form)
    IN  /\ IF ~Truthy(session.email)
           THEN /\ resp' = Response("update_landlord_settings", 401,
                                    "Unauthorized", None, 0, <<>>)
                /\ UNCHANGED <<landlords, tenants, nops>>
           ELSE IF landlord = NoUser \/ landlord.role # "landlord"
           THEN /\ resp' = Response("update_landlord_settings", 404,
                                    "Landlord not found", None, 0, <<>>)
                /\ UNCHANGED <<landlords, tenants, nops>>
           ELSE IF /\ WantsPasswordChange(form)
                   /\ ~check_password(landlord, <<form.current_password>>)
           THEN /\ resp' = Response("update_landlord_settings", 400,
                                    "Current password is incorrect",
                                    None, 0, <<>>)
                /\ UNCHANGED <<landlords, tenants, nops>>
           ELSE IF SaveRaises(toSave)
           THEN \* the ValueError of save() is not caught: Flask answers 500
                /\ resp' = Response("update_landlord_settings", 500,
                                    "Internal Server Error", None, 0, <<>>)
                /\ UNCHANGED <<landlords, tenants, nops>>
           ELSE /\ Budget
                /\ landlords' = SaveLandlords(landlords, toSave, salt)
                /\ tenants' = SaveTenants(tenants, toSave, salt)
                /\ resp' = Response("update_landlord_settings", 200,
                                    "Settings updated successfully",
                                    None, 0, <<>>)
        /\ UNCHANGED <<session, nextToken, issued, events, pending>>

\* GET /api/tenant/info
GetTenantInfo ==
    LET tenant == find_by_email(landlords, tenants, session.email, None)
    IN  /\ resp' =
              IF ~Truthy(session.email)
              THEN Response("get_tenant_info", 401, "Unauthorized",
                            None, 0, <<>>)
              ELSE IF tenant = NoUser \/ tenant.role # "tenant"
              THEN Response("get_tenant_info", 404, "Tenant not found",
                            None, 0, <<>>)
              ELSE Response("get_tenant_info", 200, "", None, 0,
                            <<[first_name |-> tenant.first_name,
                               last_name |-> tenant.last_name,
                               email |-> tenant.email,
                               phone |-> tenant.phone,
                               house_type |-> tenant.house_type]>>)
        /\ UNCHANGED <<landlords, tenants, session, nextToken, issued, events,
                       nops, pending>>

\* POST /api/tenant/settings
UpdateTenantSettings(form, salt) ==
    LET tenant == find_by_email(landlords, tenants, session.email, None)
        toSave == TenantToSave(tenant, form)
    IN  /\ IF ~Truthy(session.email)
           THEN /\ resp' = Response("update_tenant_settings", 401,
                                    "Unauthorized", None, 0, <<>>)
                /\ UNCHANGED <<landlords, tenants, nops>>
           ELSE IF tenant = NoUser \/ tenant.role # "tenant"
           THEN /\ resp' = Response("update_tenant_settings", 404,
                                    "Tenant not found", None, 0, <<>>)
                /\ UNCHANGED <<landlords, tenants, nops>>
           ELSE IF /\ WantsPasswordChange(form)
                   /\ ~check_password(tenant, <<form.current_password>>)
           THEN /\ resp' = Response("update_tenant_settings", 400,
                                    "Current password is incorrect",
                                    None, 0, <<>>)
                /\ UNCHANGED <<landlords, tenants, nops>>
           ELSE IF SaveRaises(toSave)
           THEN \* the ValueError of save() is not caught: Flask answers 500
                /\ resp' = Response("update_tenant_settings", 500,
                                    "Internal Server Error", None, 0, <<>>)
                /\ UNCHANGED <<landlords, tenants, nops>>
           ELSE /\ Budget
                /\ landlords' = SaveLandlords(landlords, toSave, salt)
                /\ tenants' = SaveTenants(tenants, toSave, salt)
                /\ resp' = Response("update_tenant_settings", 200,
                                    "Settings updated successfully",
                                    None, 0, <<>>)
        /\ UNCHANGED <<session, nextToken, issued, events, pending>>

----------------------------------------------------------------------------
\* The dashboards.

\* a decorator that renders the page whatever the session says
Dashboard_NoGate(required_role) ==
    /\ resp' = Response("dashboard", 200, "", required_role, 0, <<>>)
    /\ UNCHANGED <<landlords, tenants, session, nextToken, issued, events, nops,
                   pending>>

\* role_required(required_role) around a page: 200 is the rendered page,
\* 302 the redirect to the login page
Dashboard(required_role) ==
    /\ resp' =
          IF session.role # required_role
          THEN Response("dashboard", 302,
                        "Access Denied. You do not have permission to view this page",
                        required_role, 0, <<>>)
          ELSE Response("dashboard", 200, "", required_role, 0, <<>>)
    /\ UNCHANGED <<landlords, tenants, session, nextToken, issued, events, nops,
                   pending>>

\* GET /dashboard/landlord
landlord_dashboard == Dashboard("landlord")

\* GET /dashboard/tenant
tenant_dashboard == Dashboard("tenant")

----------------------------------------------------------------------------
\* Payments.

\* a JSON value of the request body: null, a number or a string
JNull == [t |-> "null", n |-> 0, s |-> ""]

JNum(n) == [t |-> "num", n |-> n, s |-> ""]

JStr(s) == [t |-> "str", n |-> 0, s |-> s]

\* Python truthiness of such a value
JTruthy(v) ==
    IF v.t = "null" THEN FALSE
    ELSE IF v.t = "num" THEN v.n # 0
    ELSE v.s # ""

PayEmailInputs == {JNull, JStr(""), JStr("bob@x.com")}

AmountInputs == {JNull, JNum(0), JNum(500), JStr("")}

\* an emit whose payload loses the amount
PaymentEvent_NoAmount(tenant_email, amount) ==
    [event |-> "update_dashboard",
     data |-> [tenant |-> tenant_email, amount |-> JNull,
               message |-> <<tenant_email, " paid $", amount>>],
     broadcast |-> TRUE]

\* the socketio.emit call of process_payment
PaymentEvent(tenant_email, amount) ==
    [event |-> "update_dashboard",
     data |-> [tenant |-> tenant_email, amount |-> amount,
               message |-> <<tenant_email, " paid $", amount>>],
     broadcast |-> TRUE]

\* POST /pay
ProcessPayment(tenant_email, amount) ==
    /\ IF ~JTruthy(tenant_email) \/ ~JTruthy(amount)
       THEN /\ resp' = Response("process_payment", 400, "Missing payment info",
                                None, 0, <<>>)
            /\ UNCHANGED <<events, nops>>
       ELSE /\ Budget
            /\ events' = Append(events, PaymentEvent(tenant_email, amount))
            /\ resp' = Response("process_payment", 200,
                                "Payment processed successfully", None, 0, <<>>)
    /\ UNCHANGED <<landlords, tenants, session, nextToken, issued, pending>>

----------------------------------------------------------------------------
\* The request streams.

DoRegister ==
    \E e \in Emails, p \in Passwords, c \in Passwords, r \in Roles,
       l \in LandlordEmailInputs, s \in Salts : Register(e, p, c, r, l, s)

DoLogin == \E e \in Emails, p \in Passwords : Login(e, p)

DoRequestReset == \E e \in Emails : RequestReset(e)

DoResetPassword ==
    \E e \in Emails, p \in Passwords, c \in Passwords, s \in Salts :
        ResetPassword(e, p, c, s)

DoLandlordSettings ==
    \E form \in SettingsInputs, s \in Salts : UpdateLandlordSettings(form, s)

DoTenantSettings ==
    \E form \in SettingsInputs, s \in Salts : UpdateTenantSettings(form, s)

DoPayment ==
    \E e \in PayEmailInputs, a \in AmountInputs : ProcessPayment(e, a)

\* registration, login and password reset
NextIdentity == DoRegister \/ DoLogin \/ DoRequestReset \/ DoResetPassword

SpecIdentity == Init /\ [][NextIdentity]_vars

\* registration, login, the landlord and tenant APIs and the dashboards
NextAccounts ==
    \/ DoRegister
    \/ DoLogin
    \/ GetTenants
    \/ GetLandlordInfo
    \/ DoLandlordSettings
    \/ GetTenantInfo
    \/ DoTenantSettings
    \/ landlord_dashboard
    \/ tenant_dashboard

SpecAccounts == Init /\ [][NextAccounts]_vars

\* registration, login and payments
NextPayments == DoRegister \/ DoLogin \/ DoPayment

SpecPayments == Init /\ [][NextPayments]_vars

\* the requests that can change the store or emit, with login
NextUpdates ==
    \/ DoRegister
    \/ DoLogin
    \/ DoRequestReset
    \/ DoResetPassword
    \/ DoLandlordSettings
    \/ DoTenantSettings
    \/ DoPayment

SpecUpdates == Init /\ [][NextUpdates]_vars

\* every request
Next ==
    \/ DoRegister
    \/ DoLogin
    \/ DoRequestReset
    \/ DoResetPassword
    \/ GetTenants
    \/ GetLandlordInfo
    \/ DoLandlordSettings
    \/ GetTenantInfo
    \/ DoTenantSettings
    \/ landlord_dashboard
    \/ tenant_dashboard
    \/ DoPayment

Spec == Init /\ [][Next]_vars

----------------------------------------------------------------------------
\* Concurrent requests.  The server handles requests in parallel, and save()
\* is three store operations with nothing that holds them together: find_one,
\* then update_one or insert_one, then the $push.  A request that has passed
\* its checks sits in pending until its save() has done all three; the store
\* operations of the pending requests interleave freely.

\* at most this many requests are inside save() at the same time
MaxInFlight == 2

\* a request inside save(): the user object, the salt gensalt() will draw,
\* the next store operation, what find_one answered, and the response the
\* handler gives when save() returns
InFlight(user, salt, pc, existing, reply) ==
    [user |-> user, salt |-> salt, pc |-> pc, existing |-> existing,
     reply |-> reply]

\* the requests in flight with q taken out, and with q put in
Without(q) == pending (-) SetToBag({q})

With(bag, q) == bag (+) SetToBag({q})

\* the write of save() into its collection, for the answer find_one gave
SaveWriteInto(coll, u, salt, existing) ==
    LET hashed == HashPw(u.password, salt)
        set == [i \in 1..Len(coll) |-> SetOnSave(coll[i], u, hashed)]
    IN  IF existing
        THEN UpdateOne(coll, u.email, set)
        ELSE InsertOne(coll, NewDoc(u, hashed))

\* save() has a $push to do after its write
NeedsPush(u) == u.role = "tenant" /\ Truthy(u.landlord_email)

\* POST /register up to and including the find_one of save()
RegisterFind(email, password, confirm_password, role, landlord_email, salt) ==
    LET user == User(email, <<password>>, role, landlord_email,
                     None, None, None, None, None)
        coll == IF role = "landlord" THEN landlords ELSE tenants
    IN  /\ IF password # confirm_password
           THEN /\ resp' = Response("register", 400, "Passwords do not match",
                                    None, 0, <<>>)
                /\ UNCHANGED <<nops, pending>>
           ELSE IF SaveRaises(user)
           THEN /\ resp' = Response("register", 400,
                                    "Password must be at least 8 characters.",
                                    None, 0, <<>>)
                /\ UNCHANGED <<nops, pending>>
           ELSE /\ Budget
                /\ BagCardinality(pending) < MaxInFlight
                /\ pending' = With(pending,
                      InFlight(user, salt, "write", FindOne(coll, email) # 0,
                               Response("register", 201,
                                        "Registration successful",
                                        role, 0, <<>>)))
                /\ UNCHANGED resp
        /\ UNCHANGED <<landlords, tenants, session, nextToken, issued, events>>

\* a settings handler up to the call of save(): the user is loaded with
\* find_by_email and changed from the form
SettingsLoad(op, required_role, not_found, form, user, toSave, salt) ==
    /\ IF ~Truthy(session.email)
       THEN /\ resp' = Response(op, 401, "Unauthorized", None, 0, <<>>)
            /\ UNCHANGED <<nops, pending>>
       ELSE IF user = NoUser \/ user.role # required_role
       THEN /\ resp' = Response(op, 404, not_found, None, 0, <<>>)
            /\ UNCHANGED <<nops, pending>>
       ELSE IF /\ WantsPasswordChange(form)
               /\ ~check_password(user, <<form.current_password>>)
       THEN /\ resp' = Response(op, 400, "Current password is incorrect",
                                None, 0, <<>>)
            /\ UNCHANGED <<nops, pending>>
       ELSE IF SaveRaises(toSave)
       THEN /\ resp' = Response(op, 500, "Internal Server Error",
                                None, 0, <<>>)
            /\ UNCHANGED <<nops, pending>>
       ELSE /\ Budget
            /\ BagCardinality(pending) < MaxInFlight
            /\ pending' = With(pending,
                  InFlight(toSave, salt, "find", FALSE,
                           Response(op, 200, "Settings updated successfully",
                                    None, 0, <<>>)))
            /\ UNCHANGED resp
    /\ UNCHANGED <<landlords, tenants, session, nextToken, issued, events>>

\* POST /api/landlord/settings up to the call of save()
LandlordSettingsLoad(form, salt) ==
    LET landlord == find_by_email(landlords, tenants, session.email, None)
    IN  SettingsLoad("update_landlord_settings", "landlord",
                     "Landlord not found", form, landlord,
                     LandlordToSave(landlord, form), salt)

\* POST /api/tenant/settings up to the call of save()
TenantSettingsLoad(form, salt) ==
    LET tenant == find_by_email(landlords, tenants, session.email, None)
    IN  SettingsLoad("update_tenant_settings", "tenant",
                     "Tenant not found", form, tenant,
                     TenantToSave(tenant, form), salt)

\* the handler returns: its response is sent and the request is over
Finish(q) ==
    /\ resp' = q.reply
    /\ pending' = Without(q)

\* save(): existing_user = collection.find_one({"email": self.email})
SaveFind(q) ==
    LET u == q.user
        coll == IF u.role = "landlord" THEN landlords ELSE tenants
    IN  /\ q.pc = "find"
        /\ pending' = With(Without(q),
                           [q EXCEPT !.pc = "write",
                                     !.existing = FindOne(coll, u.email) # 0])
        /\ UNCHANGED <<landlords, tenants, session, resp, nextToken, issued,
                       events, nops>>

\* save(): update_one or insert_one, as find_one answered
SaveWrite(q) ==
    LET u == q.user
    IN  /\ q.pc = "write"
        /\ landlords' = IF u.role = "landlord"
                        THEN SaveWriteInto(landlords, u, q.salt, q.existing)
                        ELSE landlords
        /\ tenants' = IF u.role = "landlord"
                      THEN tenants
                      ELSE SaveWriteInto(tenants, u, q.salt, q.existing)
        /\ IF NeedsPush(u)
           THEN /\ pending' = With(Without(q), [q EXCEPT !.pc = "push"])
                /\ UNCHANGED resp
           ELSE Finish(q)
        /\ UNCHANGED <<session, nextToken, issued, events, nops>>

\* save(): the $push on the landlord's document, then the handler returns
SavePush(q) ==
    /\ q.pc = "push"
    /\ landlords' = PushMembership(landlords, q.user)
    /\ Finish(q)
    /\ UNCHANGED <<tenants, session, nextToken, issued, events, nops>>

\* the passwords of the concurrent registrations: one too short, one valid
RacePasswords == {"short", "password123"}

DoRegisterFind ==
    \E e \in Emails, p \in RacePasswords, c \in RacePasswords, r \in Roles,
       l \in LandlordEmailInputs, s \in Salts : RegisterFind(e, p, c, r, l, s)

DoLandlordSettingsLoad ==
    \E form \in SettingsInputs, s \in Salts : LandlordSettingsLoad(form, s)

DoTenantSettingsLoad ==
    \E form \in SettingsInputs, s \in Salts : TenantSettingsLoad(form, s)

DoSaveFind == \E q \in BagToSet(pending) : SaveFind(q)

DoSaveWrite == \E q \in BagToSet(pending) : SaveWrite(q)

DoSavePush == \E q \in BagToSet(pending) : SavePush(q)

\* registration, login and the settings updates, served concurrently
NextConcurrent ==
    \/ DoRegisterFind
    \/ DoLogin
    \/ DoLandlordSettingsLoad
    \/ DoTenantSettingsLoad
    \/ DoSaveFind
    \/ DoSaveWrite
    \/ DoSavePush

SpecConcurrent == Init /\ [][NextConcurrent]_vars

----------------------------------------------------------------------------
\* Properties.

\* some document of coll has this email
HasEmail(coll, email) == \E i \in 1..Len(coll) : coll[i].email = email

\* the documents of coll with this email
DocsOf(coll, email) == {i \in 1..Len(coll) : coll[i].email = email}

\* C1: a registration whose passwords differ, or whose password is shorter
\* than 8 characters, answers 400 and leaves both collections as they were.
C1_FailedRegistrationStoresNothing ==
    \A e \in Emails, p \in Passwords, c \in Passwords, r \in Roles,
       l \in LandlordEmailInputs, s \in Salts :
        (p # c \/ Len(p) < 8)
        => ~ENABLED (/\ Register(e, p, c, r, l, s)
                     /\ ~(/\ resp'.status = 400
                          /\ landlords' = landlords
                          /\ tenants' = tenants))

\* a too-short password was just refused while the store holds records
C1_Witness ==
    /\ resp.op = "register"
    /\ resp.status = 400
    /\ resp.message = "Password must be at least 8 characters."
    /\ landlords # <<>>
    /\ tenants # <<>>

C3_RegistrationAppendsOneMembership ==
    \A e \in Emails, p \in Passwords, l \in Emails, s \in Salts :
        HasEmail(landlords, l)
        => ~ENABLED (/\ Register(e, p, p, "tenant", l, s)
                     /\ resp'.status = 201
                     /\ ~(/\ Len(landlords') = Len(landlords)
                          /\ \A i \in 1..Len(landlords) :
                                /\ landlords'[i].email = landlords[i].email
                                /\ landlords'[i].tenants =
                                      IF landlords[i].email = l
                                      THEN Append(landlords[i].tenants,
                                                  [name |-> e,
                                                   status |-> "overdue"])
                                      ELSE landlords[i].tenants))

\* a tenant was just registered with one of two landlords
C3_Witness ==
    /\ resp.op = "register"
    /\ resp.status = 201
    /\ resp.role = "tenant"
    /\ nops = 3
    /\ Len(landlords) = 2
    /\ Len(tenants) = 1
    /\ \E i \in 1..2 : landlords[i].tenants # <<>>

\* the collection in which the role-unaware lookup resolves an email: the
\* landlords collection is searched first
ResolvesIn(L, T, e) == IF HasEmail(L, e) THEN L ELSE T

\* hashed is a hash derived from the plaintext p
DerivedFrom(hashed, p) == Len(hashed) = 2 /\ hashed[1] = p

\* C4: login answers 200 and sets the session to the email and role of the
\* record resolved for the email exactly when that record exists and the
\* password is the plaintext its stored hash was derived from; otherwise it
\* answers 401 and leaves the session as it was.
C4_LoginExactlyOnStoredPlaintext ==
    \A e \in Emails, p \in Passwords :
        LET coll == ResolvesIn(landlords, tenants, e)
            ok == \E i \in DocsOf(coll, e) : DerivedFrom(coll[i].password, p)
        IN  ~ENABLED (/\ Login(e, p)
                      /\ ~(IF ok
                           THEN /\ resp'.status = 200
                                /\ \E i \in DocsOf(coll, e) :
                                      /\ session' = [email |-> e,
                                                     role |-> coll[i].role]
                                      /\ resp'.role = coll[i].role
                           ELSE /\ resp'.status = 401
                                /\ session' = session))

\* a login just succeeded for an email registered in both collections
C4_Witness ==
    /\ resp.op = "login"
    /\ resp.status = 200
    /\ session.role = "landlord"
    /\ HasEmail(tenants, session.email)

\* the plaintext p logs the email in against the store <<L, T>>
LoginSucceeds(L, T, e, p) ==
    LET coll == ResolvesIn(L, T, e)
    IN  \E i \in DocsOf(coll, e) : CheckPw(<<p>>, coll[i].password)

\* the password fields of a settings request ask for no change
NoPasswordChange(form) ==
    \/ form.current_password \in {None, ""}
    \/ form.new_password \in {None, ""}

\* C5: a landlord or tenant settings update whose current_password or
\* new_password is missing or empty leaves the password unchanged: every
\* plaintext that logged in before the update logs in after it.
C5_SettingsWithoutPasswordKeepLogin ==
    [][resp'.op \in {"update_landlord_settings", "update_tenant_settings"} =>
       \A form \in SettingsInputs, s \in Salts :
          (/\ NoPasswordChange(form)
           /\ \/ UpdateLandlordSettings(form, s)
              \/ UpdateTenantSettings(form, s))
          => \A e \in Emails, p \in Passwords :
                LoginSucceeds(landlords, tenants, e, p)
                => LoginSucceeds(landlords', tenants', e, p)]_vars

\* no record of either collection has this email
NoRecord(e) == ~HasEmail(landlords, e) /\ ~HasEmail(tenants, e)

\* C6: a password reset fails without modifying any record: with differing
\* passwords it answers 400; else with an email that matches no record 404;
\* else with a new password shorter than 8 characters 400.
C6_FailedResetChangesNothing ==
    \A e \in Emails, p \in Passwords, c \in Passwords, s \in Salts :
        (p # c \/ NoRecord(e) \/ Len(p) < 8)
        => ~ENABLED (/\ ResetPassword(e, p, c, s)
                     /\ ~(/\ landlords' = landlords
                          /\ tenants' = tenants
                          /\ resp'.status = IF p # c THEN 400
                                            ELSE IF NoRecord(e) THEN 404
                                            ELSE 400))

\* a too-short new password was just refused for an existing record
C6_Witness ==
    /\ resp.op = "reset_password"
    /\ resp.status = 400
    /\ resp.message = "New password must be at least 8 characters."
    /\ landlords # <<>>

\* C7: a reset request for an email that matches no record answers 404 and
\* modifies no record; for an email that matches a record it answers with a
\* token that is now that record's reset token and that no earlier request
\* for the email returned.
C7_ResetTokenPersistedAndFresh ==
    \A e \in Emails :
        ~ENABLED (/\ RequestReset(e)
                  /\ ~(IF NoRecord(e)
                       THEN /\ resp'.status = 404
                            /\ landlords' = landlords
                            /\ tenants' = tenants
                       ELSE LET after == ResolvesIn(landlords', tenants', e)
                            IN  /\ resp'.status = 200
                                /\ resp'.token # 0
                                /\ DocsOf(after, e) # {}
                                /\ \A i \in DocsOf(after, e) :
                                      after[i].reset_token = resp'.token
                                /\ <<e, resp'.token>> \notin issued))

\* a second token was just issued for the same email
C7_Witness ==
    /\ resp.op = "request_reset"
    /\ resp.status = 200
    /\ \E e \in Emails, t \in 1..MaxOps :
          /\ t # resp.token
          /\ {<<e, t>>, <<e, resp.token>>} \subseteq issued

\* the membership list of the landlord record with this email
MembershipOf(L, l) == L[CHOOSE i \in DocsOf(L, l) : TRUE].tenants

\* the join of the membership entries with the tenants collection: one
\* element per entry whose name resolves, in the order of the entries, with
\* the entry's status and the tenant record's house_type
Join(entries, T) ==
    LET Resolves(m) == HasEmail(T, m.name)
        kept == SelectSeq(entries, Resolves)
    IN  [k \in 1..Len(kept) |->
            [name |-> kept[k].name,
             status |-> kept[k].status,
             house_type |-> T[CHOOSE i \in DocsOf(T, kept[k].name) : TRUE]
                               .house_type]]

\* C8: for a session whose email resolves to a landlord record, the tenant
\* list just served (the request leaves store and session as they are) is
\* the join of that landlord's membership list with the tenants collection;
\* and registering a tenant with a landlord whose list is empty makes that
\* landlord's tenant list [{name, "overdue", null}].
C8_TenantListIsJoin ==
    /\ (resp.op = "get_tenants" /\ HasEmail(landlords, session.email))
       => /\ resp.status = 200
          /\ resp.body = Join(MembershipOf(landlords, session.email), tenants)
    /\ \A e \in Emails, p \in Passwords, l \in Emails, s \in Salts :
          (/\ HasEmail(landlords, l)
           /\ MembershipOf(landlords, l) = <<>>
           /\ Len(p) >= 8)
          => ~ENABLED (/\ Register(e, p, p, "tenant", l, s)
                       /\ resp'.status = 201
                       /\ TenantList(tenants', MembershipOf(landlords', l))
                             # <<[name |-> e, status |-> "overdue",
                                  house_type |-> None]>>)

\* a landlord was just served a list of two different tenants
C8_Witness ==
    /\ resp.op = "get_tenants"
    /\ resp.status = 200
    /\ Len(resp.body) = 2
    /\ resp.body[1].name # resp.body[2].name

\* the requests of the landlord API
LandlordApi ==
    \/ GetTenants
    \/ GetLandlordInfo
    \/ \E form \in SettingsInputs, s \in Salts : UpdateLandlordSettings(form, s)

\* the caller's resolved role is landlord
CallerIsLandlord == Truthy(session.email) /\ HasEmail(landlords, session.email)

\* a dashboard page is rendered only for its role, a mismatch is redirected
DashboardGate ==
    \A R \in Roles :
        ~ENABLED (/\ Dashboard(R)
                  /\ resp'.status # (IF session.role = R THEN 200 ELSE 302))

\* only a successful login sets the session
SessionSetByLogin ==
    session' # session => (resp'.op = "login" /\ resp'.status = 200)

\* C9 as stated: role-protected resources are served only on a role match,
\* and the landlord API answers a caller who is not a landlord with 401 or a
\* redirect, no data and no change to any record.
C9_LandlordApiAnswers401 ==
    /\ [][SessionSetByLogin]_vars
    /\ [](/\ DashboardGate
          /\ ~CallerIsLandlord
             => ~ENABLED (/\ LandlordApi
                          /\ ~(/\ resp'.status \in {401, 302}
                               /\ resp'.body = <<>>
                               /\ landlords' = landlords
                               /\ tenants' = tenants)))

\* C9 as amended: the landlord API answers a caller without a session email
\* with 401 and a caller whose email resolves to no landlord record with
\* 404, in both cases with no data and no change to any record.
C9_LandlordApiAnswers401Or404 ==
    /\ [][SessionSetByLogin]_vars
    /\ [](/\ DashboardGate
          /\ ~CallerIsLandlord
             => ~ENABLED (/\ LandlordApi
                          /\ ~(/\ resp'.status =
                                     IF Truthy(session.email) THEN 404 ELSE 401
                               /\ resp'.body = <<>>
                               /\ landlords' = landlords
                               /\ tenants' = tenants)))

\* a logged-in tenant was just refused by the landlord API
C9_Witness ==
    /\ resp.op \in {"get_tenants", "get_landlord_info",
                    "update_landlord_settings"}
    /\ resp.status = 404
    /\ session.role = "tenant"
    /\ landlords # <<>>

\* a payment field that is missing (null) or empty
MissingOrEmpty(v) == v = JNull \/ v = JStr("")

\* the step emits exactly one broadcast event carrying the payment
EmitsOne(e, a) ==
    /\ Len(events') = Len(events) + 1
    /\ SubSeq(events', 1, Len(events)) = events
    /\ events'[Len(events')].event = "update_dashboard"
    /\ events'[Len(events')].broadcast
    /\ events'[Len(events')].data.tenant = e
    /\ events'[Len(events')].data.amount = a

\* C10 as stated: a payment with a missing or empty email or amount answers
\* 400 and emits nothing; any other payment emits exactly one broadcast
\* event carrying the email and the amount; no stored record changes.
C10_PaymentMissingOrEmpty ==
    \A e \in PayEmailInputs, a \in AmountInputs :
        ~ENABLED (/\ ProcessPayment(e, a)
                  /\ ~(/\ landlords' = landlords
                       /\ tenants' = tenants
                       /\ IF MissingOrEmpty(e) \/ MissingOrEmpty(a)
                          THEN resp'.status = 400 /\ events' = events
                          ELSE EmitsOne(e, a)))

\* C10 as amended: a zero amount is refused like a missing one.
C10_PaymentMissingEmptyOrZero ==
    \A e \in PayEmailInputs, a \in AmountInputs :
        ~ENABLED (/\ ProcessPayment(e, a)
                  /\ ~(/\ landlords' = landlords
                       /\ tenants' = tenants
                       /\ IF MissingOrEmpty(e) \/ MissingOrEmpty(a)
                             \/ a = JNum(0)
                          THEN resp'.status = 400 /\ events' = events
                          ELSE EmitsOne(e, a)))

\* a payment was just broadcast while the store holds a landlord with a tenant
C10_Witness ==
    /\ resp.op = "process_payment"
    /\ resp.status = 200
    /\ Len(events) = 1
    /\ events[1].data.amount = JNum(500)
    /\ \E i \in 1..Len(landlords) : landlords[i].tenants # <<>>

\* the user object u carries the stored fields of the document d
LoadedFrom(u, d) ==
    /\ u.email = d.email
    /\ u.password = d.password
    /\ u.role = d.role
    /\ u.first_name = d.first_name
    /\ u.last_name = d.last_name
    /\ u.phone = d.phone
    /\ u.profile_picture = d.profile_picture
    /\ u.house_type = d.house_type

\* the collections find_by_email searches for a role argument, in order
Searched(L, T, role) ==
    IF role = "landlord" THEN <<L>>
    ELSE IF role = "tenant" THEN <<T>>
    ELSE <<L, T>>

\* C11: find_by_email with a role searches only that role's collection; with
\* the role omitted it returns the landlords record if there is one, else the
\* tenants record; it returns the not-found sentinel exactly when no searched
\* collection holds the email.
C11_FindByEmailSearchOrder ==
    \A e \in Emails, r \in Roles \cup {None} :
        LET found == find_by_email(landlords, tenants, e, r)
            colls == Searched(landlords, tenants, r)
            holders == {k \in 1..Len(colls) : HasEmail(colls[k], e)}
        IN  /\ (found = NoUser) <=> (holders = {})
            /\ holders # {}
               => LET first == colls[CHOOSE k \in holders :
                                        \A j \in holders : k <= j]
                  IN  \E i \in DocsOf(first, e) : LoadedFrom(found, first[i])

\* the landlord was just served a tenant whose email is also a landlord's,
\* and the two records of that email differ
C11_Witness ==
    /\ resp.op = "get_tenants"
    /\ resp.status = 200
    /\ Len(resp.body) >= 1
    /\ HasEmail(landlords, resp.body[1].name)
    /\ find_by_email(landlords, tenants, resp.body[1].name, "tenant")
          # find_by_email(landlords, tenants, resp.body[1].name, None)
    /\ \E e \in Emails : NoRecord(e)

\* C12: in every reachable state, under every interleaving of concurrent
\* save() calls, each collection holds at most one record per email.
C12_OneRecordPerEmail ==
    \A e \in Emails :
        /\ Cardinality(DocsOf(landlords, e)) <= 1
        /\ Cardinality(DocsOf(tenants, e)) <= 1

\* the stored fields a re-registration does not set
KeepsProfile(before, after) ==
    /\ after.first_name = before.first_name
    /\ after.last_name = before.last_name
    /\ after.phone = before.phone
    /\ after.profile_picture = before.profile_picture
    /\ after.house_type = before.house_type
    /\ after.role = before.role

\* C13: save() on an existing email replaces only the fields explicitly set:
\* registering again an email that has a record in the role's collection
\* leaves that record's first_name, last_name, phone, profile_picture,
\* house_type and role as they were, and a landlord's tenants list too.
C13_ReRegistrationKeepsProfile ==
    \A e \in Emails, p \in Passwords, r \in Roles,
       l \in LandlordEmailInputs, s \in Salts :
        (/\ Len(p) >= 8
         /\ HasEmail(IF r = "landlord" THEN landlords ELSE tenants, e))
        => ~ENABLED (/\ Register(e, p, p, r, l, s)
                     /\ LET before == IF r = "landlord" THEN landlords
                                      ELSE tenants
                            after == IF r = "landlord" THEN landlords'
                                     ELSE tenants'
                        IN  ~(/\ Len(after) = Len(before)
                              /\ \A i \in DocsOf(before, e) :
                                    /\ KeepsProfile(before[i], after[i])
                                    /\ (r = "landlord" /\ l = None)
                                       => after[i].tenants = before[i].tenants))

\* the names of all membership entries, whatever the length of the lists
AllMemberNames ==
    UNION {{landlords[i].tenants[k].name : k \in 1..Len(landlords[i].tenants)} :
             i \in 1..Len(landlords)}

\* C14: after any sequence of register, settings, reset and payment requests
\* every entry of every landlord's membership list names an email that has a
\* record in the tenants collection, so the tenant list drops no entry.
C14_MembershipNamesTenants ==
    /\ \A e \in AllMemberNames : HasEmail(tenants, e)
    /\ \A i \in 1..Len(landlords) :
          Len(TenantList(tenants, landlords[i].tenants))
             = Len(landlords[i].tenants)

\* a landlord has a member while another tenant record is in no list: the
\* reverse direction fails
C14_Witness ==
    /\ AllMemberNames # {}
    /\ \E i \in 1..Len(tenants) : tenants[i].email \notin AllMemberNames
    /\ nops = MaxOps

====
